---- MODULE Spec2Model ----
(***************************************************************************)
(* Model of the two batch utilities of the Beit-Din-Gadol repository:      *)
(*   scripts/ingest_miyodea_qa.py  (MiYodea ingest)                        *)
(*   update_responsa.py            (responsa directory scan)               *)
(*                                                                         *)
(* Text is modelled as a sequence of one-character strings, so that        *)
(* strip(), lower(), startswith(), splitlines() and the digit extraction   *)
(* are computed, not assumed.  File paths are opaque strings.              *)
(*                                                                         *)
(* Entry fields that no operation ever reads back and that are constants   *)
(* or copies of modelled fields (title_*, category*, date, year, source,   *)
(* source_url, tags) are left out of the entry records.                    *)
(***************************************************************************)
EXTENDS Integers, Sequences, FiniteSets, TLC

VARIABLES
    responsa,   \* responsa.json on disk: [kind, data]
    qa_db,      \* qa_db.json on disk: [kind, questions]
    dump,       \* miyodea/qa/*.json: dump file name -> file content
    tree,       \* responsa/ document tree: [isdir, files]
    last,       \* record of the most recent run (history)
    ingested,   \* TRUE iff an ingest run completed on the current dump
    procs,      \* overlapping runs: process -> local working set
    writers,    \* processes that have written responsa.json, in order
    content,    \* text given to normalize_summary_from_content
    summary,    \* its result
    spc,        \* "edit" while content is being built, then "done"
    runs,       \* number of runs made so far
    edits       \* number of changes made to the dump directory and the tree

vars == <<responsa, qa_db, dump, tree, last, ingested, procs, writers,
          content, summary, spc, runs, edits>>

----------------------------------------------------------------------------
(* Text primitives (Python str methods)                                    *)

IsSpace(c) == c \in {" ", "\t", "\n", "\r"}

MinOf(S) == CHOOSE x \in S : \A y \in S : x <= y
MaxOf(S) == CHOOSE x \in S : \A y \in S : x >= y

\* str.strip()
Strip(s) ==
    LET keep == {i \in 1..Len(s) : ~IsSpace(s[i])}
    IN  IF keep = {} THEN <<>> ELSE SubSeq(s, MinOf(keep), MaxOf(keep))

\* str.lower(), one character
LowerChar(c) ==
    CASE c = "A" -> "a" [] c = "B" -> "b" [] c = "C" -> "c" [] c = "D" -> "d"
      [] c = "E" -> "e" [] c = "F" -> "f" [] c = "G" -> "g" [] c = "H" -> "h"
      [] c = "I" -> "i" [] c = "J" -> "j" [] c = "K" -> "k" [] c = "L" -> "l"
      [] c = "M" -> "m" [] c = "N" -> "n" [] c = "O" -> "o" [] c = "P" -> "p"
      [] c = "Q" -> "q" [] c = "R" -> "r" [] c = "S" -> "s" [] c = "T" -> "t"
      [] c = "U" -> "u" [] c = "V" -> "v" [] c = "W" -> "w" [] c = "X" -> "x"
      [] c = "Y" -> "y" [] c = "Z" -> "z" [] OTHER -> c

Lower(s) == [i \in 1..Len(s) |-> LowerChar(s[i])]

\* str.startswith()
StartsWith(s, p) == Len(s) >= Len(p) /\ SubSeq(s, 1, Len(p)) = p

\* str.splitlines(), with "\n" the only line boundary of the model's texts
RECURSIVE SplitLines(_)
SplitLines(s) ==
    IF s = <<>> THEN <<>>
    ELSE LET nl == {i \in 1..Len(s) : s[i] = "\n"}
         IN  IF nl = {} THEN <<s>>
             ELSE <<SubSeq(s, 1, MinOf(nl) - 1)>>
                  \o SplitLines(SubSeq(s, MinOf(nl) + 1, Len(s)))

\* " ".join(lines)
RECURSIVE JoinSp(_)
JoinSp(lines) ==
    IF lines = <<>> THEN <<>>
    ELSE IF Len(lines) = 1 THEN lines[1]
    ELSE lines[1] \o <<" ">> \o JoinSp(Tail(lines))

----------------------------------------------------------------------------
(* normalize_summary_from_content                                          *)

SummaryMax == 220

\* the character U+2026 appended to a truncated summary
Ellipsis == "ELLIPSIS"

SectionLabels ==
    { <<"f","r","a","g","e">>,
      <<"a","n","s","w","e","r","s">>,
      <<"a","n","t","w","o","r","t","e","n">>,
      <<"a","n","s","w","e","r">>,
      <<"q","u","e","s","t","i","o","n">> }

\* mutation: the section label itself is never recognised
SkipLineNoLabels(stripped) ==
    stripped = <<>> \/ StartsWith(stripped, <<"#">>)

\* the two `continue` conditions of the loop over content.splitlines()
SkipLine(stripped) ==
    \/ stripped = <<>>
    \/ StartsWith(stripped, <<"#">>)
    \/ \E lab \in SectionLabels : StartsWith(Lower(stripped), lab)

RECURSIVE SanitizedLines(_)
SanitizedLines(lines) ==
    IF lines = <<>> THEN <<>>
    ELSE LET stripped == Strip(Head(lines))
         IN  IF SkipLine(stripped) THEN SanitizedLines(Tail(lines))
             ELSE <<stripped>> \o SanitizedLines(Tail(lines))

normalize_summary_from_content(c) ==
    IF c = <<>> THEN <<>>
    ELSE LET sanitized_text == Strip(JoinSp(SanitizedLines(SplitLines(c))))
         IN  IF Len(sanitized_text) > SummaryMax
             THEN SubSeq(sanitized_text, 1, SummaryMax) \o <<Ellipsis>>
             ELSE sanitized_text

----------------------------------------------------------------------------
(* JSON values of the dump items                                           *)

\* the value of an item's "id": missing key, null, or a string
IdAbsent == [t |-> "absent", s |-> <<>>]
IdNull   == [t |-> "null",   s |-> <<>>]
IdOf(s)  == [t |-> "str",    s |-> s]

NoneStr == <<"N","o","n","e">>

\* str(item.get("id", ""))
StrIdDefault(id) ==
    CASE id.t = "absent" -> <<>>
      [] id.t = "null"   -> NoneStr
      [] OTHER           -> id.s

\* str(q.get("id"))
StrId(id) ==
    CASE id.t = "absent" -> NoneStr
      [] id.t = "null"   -> NoneStr
      [] OTHER           -> id.s

\* a dump item: a JSON object (isdict) with id, content, url and
\* metadata.url ("" when the key is missing), or some other JSON value
Item(id, c, url, murl) ==
    [isdict |-> TRUE, id |-> id, content |-> c, url |-> url, meta_url |-> murl]

NonDictItem ==
    [isdict |-> FALSE, id |-> IdAbsent, content |-> <<>>, url |-> "",
     meta_url |-> ""]

\* qid = str(item.get("id", "")).strip()
QidOf(item) == Strip(StrIdDefault(item.id))

\* if meta.get("url") and not item.get("url"): item["url"] = meta["url"]
Backfill(item) ==
    IF item.meta_url # "" /\ item.url = ""
    THEN [item EXCEPT !.url = item.meta_url]
    ELSE item

----------------------------------------------------------------------------
(* to_responsa_entry                                                       *)

IsDigit(c) == c \in {"0","1","2","3","4","5","6","7","8","9"}

DigitVal(c) ==
    CASE c = "0" -> 0 [] c = "1" -> 1 [] c = "2" -> 2 [] c = "3" -> 3
      [] c = "4" -> 4 [] c = "5" -> 5 [] c = "6" -> 6 [] c = "7" -> 7
      [] c = "8" -> 8 [] c = "9" -> 9

\* int(digits)
RECURSIVE ParseInt(_)
ParseInt(d) ==
    IF d = <<>> THEN 0
    ELSE 10 * ParseInt(SubSeq(d, 1, Len(d) - 1)) + DigitVal(d[Len(d)])

\* the "file" value: a page with an optional ?id=..&src=.. query
QaFile(qid, rel) == [page |-> "qa.html", id |-> qid, src |-> rel]
DocFile(path)    == [page |-> path, id |-> <<>>, src |-> ""]

to_responsa_entry(item, src_relpath) ==
    LET qid    == Strip(StrIdDefault(item.id))
        digits == SelectSeq(qid, IsDigit)
    IN  [number    |-> IF digits # <<>> THEN ParseInt(digits) ELSE 0,
         summary   |-> normalize_summary_from_content(item.content),
         file      |-> QaFile(qid, src_relpath),
         type      |-> "html",
         source_id |-> qid,
         src       |-> src_relpath]

----------------------------------------------------------------------------
(* Files on disk                                                           *)

\* responsa.json: missing, not parseable, parseable but not an array,
\* or an array of entries
RespFile(kind, data) == [kind |-> kind, data |-> data]

\* qa_db.json: missing, not parseable, parseable but not an object,
\* or an object whose "questions" is the list
QaFileOf(kind, qs) == [kind |-> kind, questions |-> qs]

\* one dump file: missing, not parseable, an array of items, one object,
\* or another JSON value
DumpFile(kind, items) == [kind |-> kind, items |-> items]

\* the names matched by MIYODEA_GLOB, in sorted() order
DumpNames == <<"miyodea/qa/a.json", "miyodea/qa/b.json">>

\* load_json(RESPONSA_PATH, []) in the ingest script
LoadResponsa(f) == IF f.kind \in {"absent", "malformed"} THEN <<>> ELSE f.data

\* load_json(QA_DB_PATH, ...) and the .get("questions", [])
LoadQuestions(f) == IF f.kind = "dict" THEN f.questions ELSE <<>>

\* data = load_json(path, None), normalised to the list that is iterated
DumpItems(f) ==
    CASE f.kind = "list" -> f.items
      [] f.kind = "dict" -> f.items
      [] OTHER           -> <<>>

\* mutation: an index that does not parse is fatal as well
IsFatalStrict(f) == f.kind \in {"notlist", "malformed"}

\* if not isinstance(responsa, list): raise SystemExit(...), applied to
\* what load_json returned
IsFatal(f) == f.kind = "notlist"

----------------------------------------------------------------------------
(* main() of ingest_miyodea_qa.py                                          *)

\* a dict in insertion order: a sequence of <<key, value>> pairs
HasKey(m, k) == \E i \in 1..Len(m) : m[i][1] = k

Upsert(m, k, v) ==
    IF HasKey(m, k)
    THEN [i \in 1..Len(m) |-> IF m[i][1] = k THEN <<k, v>> ELSE m[i]]
    ELSE Append(m, <<k, v>>)

Values(m) == [i \in 1..Len(m) |-> m[i][2]]

\* existing_map = {str(q.get("id")): q for q in existing_questions if dict}
RECURSIVE ExistingMap(_)
ExistingMap(qs) ==
    IF qs = <<>> THEN <<>>
    ELSE LET q    == qs[Len(qs)]
             rest == ExistingMap(SubSeq(qs, 1, Len(qs) - 1))
         IN  IF q.isdict THEN Upsert(rest, StrId(q.id), q) ELSE rest

\* existing_keys built from the loaded index
ExistingKeys(entries) ==
    {<<entries[i].src, entries[i].source_id>> : i \in 1..Len(entries)}
        \ {<<"", <<>>>>}

\* the (rel, item) pairs in processing order
RECURSIVE Flatten(_, _)
Flatten(d, names) ==
    IF names = <<>> THEN <<>>
    ELSE LET rel   == Head(names)
             items == DumpItems(d[rel])
         IN  [i \in 1..Len(items) |-> <<rel, items[i]>>]
             \o Flatten(d, Tail(names))

\* mutation: the key of a new entry is not remembered
IngestItemForgetKey(st, rel, raw) ==
    LET qid == QidOf(raw)
    IN  IF ~raw.isdict \/ qid = <<>> THEN st
        ELSE LET item == Backfill(raw)
                 key  == <<rel, qid>>
             IN  [map  |-> Upsert(st.map, qid, item),
                  keys |-> st.keys,
                  new  |-> IF key \in st.keys THEN st.new
                           ELSE Append(st.new, to_responsa_entry(item, rel))]

\* one iteration of `for item in data`
IngestItem(st, rel, raw) ==
    LET qid == QidOf(raw)
    IN  IF ~raw.isdict \/ qid = <<>> THEN st
        ELSE LET item == Backfill(raw)
                 key  == <<rel, qid>>
             IN  [map  |-> Upsert(st.map, qid, item),
                  keys |-> st.keys \cup {key},
                  new  |-> IF key \in st.keys THEN st.new
                           ELSE Append(st.new, to_responsa_entry(item, rel))]

RECURSIVE IngestLoop(_, _)
IngestLoop(st, pairs) ==
    IF pairs = <<>> THEN st
    ELSE IngestLoop(IngestItem(st, pairs[1][1], pairs[1][2]), Tail(pairs))

\* everything main() computes between the loads and the saves
IngestCompute(entries, questions, d) ==
    LET st == IngestLoop([map  |-> ExistingMap(questions),
                          keys |-> ExistingKeys(entries),
                          new  |-> <<>>],
                         Flatten(d, DumpNames))
    IN  [new_entries        |-> st.new,
         responsa           |-> entries \o st.new,
         combined_questions |-> Values(st.map)]

----------------------------------------------------------------------------
(* update_responsa.py                                                      *)

\* what responsa_dir.rglob("*") can yield: path, suffix, is_file()
Node(path, suffix, isfile) == [path |-> path, suffix |-> suffix, isfile |-> isfile]

DocNodes ==
    { Node("responsa/2025/a.html", <<".","h","t","m","l">>, TRUE),
      Node("responsa/2025/b.PDF",  <<".","P","D","F">>,     TRUE),
      Node("responsa/notes.txt",   <<".","t","x","t">>,     TRUE),
      Node("responsa/2025",        <<>>,                    FALSE) }

DocSuffixes ==
    { <<".","h","t","m","l">>, <<".","h","t","m">>, <<".","p","d","f">> }

HtmlSuffixes == { <<".","h","t","m","l">>, <<".","h","t","m">> }

\* the two `continue` tests at the head of the rglob loop
Eligible(n) == n.isfile /\ Lower(n.suffix) \in DocSuffixes

\* the try/except around json.load(f): anything unreadable is []
ScanLoad(f) == IF f.kind = "list" THEN f.data ELSE <<>>

\* existing_map = {entry.get("file"): entry ...}, as its key set
ExistingFiles(entries) == {entries[i].file : i \in 1..Len(entries)}

\* mutation: numbering restarts from the number of entries
NextNumberByCount(entries) == Len(entries) + 1

\* next_number = max(existing_numbers, default=0) + 1
NextNumber(entries) ==
    IF entries = <<>> THEN 1
    ELSE MaxOf({entries[i].number : i \in 1..Len(entries)}) + 1

\* extract_metadata, with BeautifulSoup unavailable (title from the file
\* name, empty summary), then the "file" and "number" overrides
ScanEntry(n, number) ==
    [number    |-> number,
     summary   |-> <<>>,
     file      |-> DocFile(n.path),
     type      |-> IF Lower(n.suffix) \in HtmlSuffixes THEN "html" ELSE "pdf",
     source_id |-> <<>>,
     src       |-> ""]

\* mutation: the index is not consulted
NewFilesAll(entries, t) == {n \in t.nodes : Eligible(n)}

\* the files for which the loop reaches extract_metadata
NewFiles(entries, t) ==
    {n \in t.nodes : Eligible(n) /\ DocFile(n.path) \notin ExistingFiles(entries)}

\* new_entries, for the order in which rglob yields the new files
NewEntries(order, first) ==
    [i \in 1..Len(order) |-> ScanEntry(order[i], first + i - 1)]

\* list.sort(key=number): stable insertion
RECURSIVE SortByNumber(_)
SortByNumber(es) ==
    IF es = <<>> THEN <<>>
    ELSE LET e    == es[Len(es)]
             rest == SortByNumber(SubSeq(es, 1, Len(es) - 1))
             le   == {i \in 1..Len(rest) : rest[i].number <= e.number}
             k    == IF le = {} THEN 0 ELSE MaxOf(le)
         IN  SubSeq(rest, 1, k) \o <<e>> \o SubSeq(rest, k + 1, Len(rest))

\* all orderings of a finite set
Orders(S) ==
    {o \in [1..Cardinality(S) -> S] : \A i, j \in 1..Cardinality(S) :
                                          i # j => o[i] # o[j]}

\* mutation: the existing entries are not carried over
ScanComputeNewOnly(entries, order) ==
    LET new_entries == NewEntries(order, NextNumber(entries))
    IN  [new_entries  |-> new_entries,
         updated_data |-> SortByNumber(new_entries)]

\* everything main() computes between the load and the write
ScanCompute(entries, order) ==
    LET new_entries == NewEntries(order, NextNumber(entries))
    IN  [new_entries  |-> new_entries,
         updated_data |-> SortByNumber(entries \o new_entries)]

----------------------------------------------------------------------------
(* The inputs the runs are tried on                                        *)

MaxRuns  == 3
MaxEdits == 2

TextA == <<"a">>
\* "# h\n b \nAnswer: c"
TextB == <<"#"," ","h","\n"," ","b"," ","\n","A","n","s","w","e","r",":"," ","c">>

ItemOne     == Item(IdOf(<<"1">>), TextA, "", "http://x")
ItemOneB    == Item(IdOf(<<"1">>), TextB, "http://y", "http://x")
ItemPadded  == Item(IdOf(<<" ","1"," ">>), TextA, "", "")
ItemPaddedB == Item(IdOf(<<" ","1"," ">>), TextB, "", "")
ItemNull    == Item(IdNull, TextA, "", "")
ItemNoId    == Item(IdAbsent, TextA, "", "")
ItemEmptyId == Item(IdOf(<<>>), TextA, "", "")
ItemBlankId == Item(IdOf(<<" ","\t">>), TextA, "", "")

\* a question that is in qa_db.json before any ingest run
ItemYeshiva == Item(IdOf(<<"1">>), <<"y">>, "", "")

DumpContents ==
    { DumpFile("absent", <<>>),
      DumpFile("malformed", <<>>),
      DumpFile("other", <<>>),
      DumpFile("dict", <<ItemOne>>),
      DumpFile("list", <<ItemPadded>>),
      DumpFile("list", <<ItemPaddedB>>),
      DumpFile("list", <<ItemOne, ItemNoId, ItemNull, NonDictItem,
                         ItemEmptyId, ItemOneB, ItemBlankId>>) }

\* an entry that is in responsa.json before any run
LegacyEntry ==
    [number |-> 7, summary |-> <<>>, file |-> DocFile("responsa/2023/old.pdf"),
     type |-> "pdf", source_id |-> <<>>, src |-> ""]

InitResponsa ==
    { RespFile("absent", <<>>), RespFile("malformed", <<>>),
      RespFile("notlist", <<>>), RespFile("list", <<>>),
      RespFile("list", <<LegacyEntry>>) }

InitQaDb ==
    { QaFileOf("absent", <<>>), QaFileOf("malformed", <<>>),
      QaFileOf("notdict", <<>>), QaFileOf("dict", <<>>),
      QaFileOf("dict", <<ItemYeshiva>>) }

NoDump == [f \in {DumpNames[i] : i \in 1..Len(DumpNames)} |-> DumpFile("absent", <<>>)]
NoTree == [isdir |-> FALSE, nodes |-> {}]

\* the dump directory before the first run: empty, or one file with one item
InitDumps ==
    { NoDump,
      [NoDump EXCEPT !["miyodea/qa/a.json"] = DumpFile("list", <<ItemPadded>>)] }

Run(op, result, new_entries) ==
    [op |-> op, result |-> result, pre_responsa |-> responsa,
     pre_qa |-> qa_db, new_entries |-> new_entries,
     was_ingested |-> ingested]

NoRun ==
    [op |-> "none", result |-> "none", pre_responsa |-> RespFile("absent", <<>>),
     pre_qa |-> QaFileOf("absent", <<>>), new_entries |-> <<>>,
     was_ingested |-> FALSE]

Procs == {1, 2}

\* the working set of a run: where it is, the list it loaded from
\* responsa.json, how many writes of responsa.json preceded that load, what
\* it adds, and the lists it is about to save
Idle ==
    [pc |-> "idle", kind |-> "none", snapshot |-> <<>>, seen |-> 0,
     new_entries |-> <<>>, out |-> <<>>, questions |-> <<>>]

----------------------------------------------------------------------------
(* Sequential runs: each run is one step                                   *)

Init ==
    /\ responsa \in InitResponsa
    /\ qa_db \in InitQaDb
    /\ dump \in InitDumps
    /\ tree = NoTree
    /\ last = NoRun
    /\ ingested = FALSE
    /\ procs = [p \in Procs |-> Idle]
    /\ writers = <<>>
    /\ content = <<>>
    /\ summary = <<>>
    /\ spc = "off"
    /\ runs = 0
    /\ edits = 0

Aside == <<procs, writers, content, summary, spc>>

\* the dump directory changes between runs
WriteDumpFile(f, c) ==
    /\ edits < MaxEdits
    /\ c # dump[f]
    /\ dump' = [dump EXCEPT ![f] = c]
    /\ ingested' = FALSE
    /\ last' = [NoRun EXCEPT !.op = "env"]
    /\ edits' = edits + 1
    /\ UNCHANGED <<responsa, qa_db, tree, runs, Aside>>

\* the document tree changes between runs; the first file creates responsa/
AddNode(n) ==
    /\ edits < MaxEdits
    /\ n \notin tree.nodes
    /\ tree' = [isdir |-> TRUE, nodes |-> tree.nodes \cup {n}]
    /\ last' = [NoRun EXCEPT !.op = "env"]
    /\ edits' = edits + 1
    /\ UNCHANGED <<responsa, qa_db, dump, ingested, runs, Aside>>

RemoveNode(n) ==
    /\ edits < MaxEdits
    /\ n \in tree.nodes
    /\ tree' = [tree EXCEPT !.nodes = @ \ {n}]
    /\ last' = [NoRun EXCEPT !.op = "env"]
    /\ edits' = edits + 1
    /\ UNCHANGED <<responsa, qa_db, dump, ingested, runs, Aside>>

\* ingest: raise SystemExit("responsa.json must be a JSON array")
IngestAbort ==
    /\ runs < MaxRuns
    /\ IsFatal(responsa)
    /\ last' = Run("ingest", "abort", <<>>)
    /\ runs' = runs + 1
    /\ UNCHANGED <<responsa, qa_db, dump, tree, ingested, Aside, edits>>

\* ingest: a whole run of main(), loads to saves
IngestRun ==
    /\ runs < MaxRuns
    /\ ~IsFatal(responsa)
    /\ LET out == IngestCompute(LoadResponsa(responsa), LoadQuestions(qa_db), dump)
       IN  /\ qa_db' = QaFileOf("dict", out.combined_questions)
           /\ responsa' = RespFile("list", out.responsa)
           /\ last' = Run("ingest", "ok", out.new_entries)
    /\ ingested' = TRUE
    /\ runs' = runs + 1
    /\ UNCHANGED <<dump, tree, Aside, edits>>

\* scan: "No 'responsa' directory found. Nothing to update."
ScanNoDir ==
    /\ runs < MaxRuns
    /\ ~tree.isdir
    /\ last' = Run("scan", "nodir", <<>>)
    /\ runs' = runs + 1
    /\ UNCHANGED <<responsa, qa_db, dump, tree, ingested, Aside, edits>>

\* scan: the index parses but is not a list; the run ends in an uncaught
\* exception or finds nothing to add, and writes nothing either way
ScanNotList ==
    /\ runs < MaxRuns
    /\ tree.isdir
    /\ responsa.kind = "notlist"
    /\ last' = Run("scan", "crash", <<>>)
    /\ runs' = runs + 1
    /\ UNCHANGED <<responsa, qa_db, dump, tree, ingested, Aside, edits>>

\* scan: "No new responsa found. 'responsa.json' is up to date."
ScanUpToDate ==
    /\ runs < MaxRuns
    /\ tree.isdir
    /\ responsa.kind # "notlist"
    /\ NewFiles(ScanLoad(responsa), tree) = {}
    /\ last' = Run("scan", "uptodate", <<>>)
    /\ runs' = runs + 1
    /\ UNCHANGED <<responsa, qa_db, dump, tree, ingested, Aside, edits>>

\* scan: a whole run of main() that finds new files, in rglob's order
ScanWrite(order) ==
    /\ runs < MaxRuns
    /\ tree.isdir
    /\ responsa.kind # "notlist"
    /\ order # <<>>
    /\ LET out == ScanCompute(ScanLoad(responsa), order)
       IN  /\ responsa' = RespFile("list", out.updated_data)
           /\ last' = Run("scan", "ok", out.new_entries)
    /\ runs' = runs + 1
    /\ UNCHANGED <<qa_db, dump, tree, ingested, Aside, edits>>

Next ==
    \/ \E f \in DOMAIN dump, c \in DumpContents : WriteDumpFile(f, c)
    \/ \E n \in DocNodes : AddNode(n)
    \/ \E n \in DocNodes : RemoveNode(n)
    \/ IngestAbort
    \/ IngestRun
    \/ ScanNoDir
    \/ ScanNotList
    \/ ScanUpToDate
    \/ \E order \in Orders(NewFiles(ScanLoad(responsa), tree)) : ScanWrite(order)

Spec == Init /\ [][Next]_vars

----------------------------------------------------------------------------
(* Properties of sequential runs                                           *)

EntriesOf(f) == IF f.kind = "list" THEN f.data ELSE <<>>
QuestionsOf(f) == IF f.kind = "dict" THEN f.questions ELSE <<>>

Range(q) == {q[i] : i \in 1..Len(q)}
Count(x, q) == Cardinality({i \in 1..Len(q) : q[i] = x})

IsMiYodea(e) == e.src # ""

RanIngest == last.op = "ingest" /\ last.result = "ok"
RanScan   == last.op = "scan"

\* the dump items of the last ingest run that reach the body of the loop
IngestedPairs == SelectSeq(Flatten(dump, DumpNames), LAMBDA pr : pr[2].isdict)

\* C1: an ingest run over a dump directory that an earlier ingest run has
\* already processed, and that has not changed since, leaves responsa.json
\* and qa_db.json with exactly the content they had before it.
C1_IngestIdempotent ==
    (RanIngest /\ last.was_ingested)
        => /\ responsa = last.pre_responsa
           /\ qa_db = last.pre_qa

\* C2: no two MiYodea-origin entries of responsa.json share (src, source_id)
\* and no two directory-scan-origin entries share `file`, whatever runs and
\* changes of the dump directory and document tree came before.
C2_UniqueKeys ==
    LET es == EntriesOf(responsa)
    IN  \A i, j \in 1..Len(es) :
            i # j =>
                /\ (IsMiYodea(es[i]) /\ IsMiYodea(es[j]))
                       => <<es[i].src, es[i].source_id>> # <<es[j].src, es[j].source_id>>
                /\ (~IsMiYodea(es[i]) /\ ~IsMiYodea(es[j]))
                       => es[i].file # es[j].file

C2_Witness ==
    LET es == EntriesOf(responsa)
    IN  /\ runs >= 3
        /\ Cardinality({i \in 1..Len(es) : IsMiYodea(es[i])}) >= 2
        /\ Cardinality({i \in 1..Len(es) : ~IsMiYodea(es[i])}) >= 2

\* C3: every entry that was in responsa.json before a run of either utility
\* is in it after the run, with all of its fields unchanged.
C3_OnlyAdds ==
    (last.op \in {"ingest", "scan"})
        => \A e \in Range(EntriesOf(last.pre_responsa)) :
               Count(e, EntriesOf(responsa)) >= Count(e, EntriesOf(last.pre_responsa))

C3_Witness ==
    /\ \/ /\ RanScan /\ last.result = "ok"
          /\ \E e \in Range(EntriesOf(last.pre_responsa)) : IsMiYodea(e)
       \/ /\ RanIngest /\ last.new_entries # <<>>
          /\ \E e \in Range(EntriesOf(last.pre_responsa)) :
                 ~IsMiYodea(e) /\ e # LegacyEntry

\* C4: the new entries of a scan run are numbered consecutively in discovery
\* order, from one above the largest number in the existing index (from 1
\* when there is none), and none of them reuses an existing number.
C4_ScanNumbering ==
    (RanScan /\ last.result = "ok")
        => LET old == EntriesOf(last.pre_responsa)
               new == last.new_entries
               nums == {old[i].number : i \in 1..Len(old)}
           IN  /\ new # <<>>
               /\ \A n \in nums : n < new[1].number
               /\ IF nums = {} THEN new[1].number = 1
                  ELSE new[1].number - 1 \in nums
               /\ \A i \in 1..Len(new) : new[i].number = new[1].number + i - 1
               /\ \A i \in 1..Len(new) : new[i] \in Range(EntriesOf(responsa))

C4_Witness ==
    /\ RanScan /\ last.result = "ok"
    /\ MaxOf({0} \cup {e.number : e \in Range(EntriesOf(last.pre_responsa))}) = 7
    /\ Len(last.new_entries) = 2
    /\ last.new_entries[1].number = 8
    /\ last.new_entries[2].number = 9

\* C5: a scan run that finds every eligible file of the tree already in the
\* index adds nothing and does not write responsa.json.
C5_ScanDedup ==
    (RanScan /\ \A n \in tree.nodes :
                    Eligible(n) => \E e \in Range(EntriesOf(last.pre_responsa)) :
                                       e.file = DocFile(n.path))
        => /\ last.result # "ok"
           /\ last.new_entries = <<>>
           /\ responsa = last.pre_responsa

C5_Witness ==
    /\ RanScan /\ last.result = "uptodate"
    /\ Cardinality({n \in tree.nodes : Eligible(n)}) = 2
    /\ Len(EntriesOf(responsa)) >= 3

\* C6 as stated: an ingest run that finds malformed JSON in responsa.json
\* aborts and overwrites neither file.
C6_MalformedIsFatal ==
    (last.op = "ingest" /\ last.pre_responsa.kind = "malformed")
        => /\ last.result = "abort"
           /\ responsa = last.pre_responsa
           /\ qa_db = last.pre_qa

\* C6 amended: only an index that parses to something other than an array is
\* fatal (the run aborts and overwrites neither file); an index that does not
\* parse is taken as empty, the run completes and overwrites responsa.json
\* with exactly the entries synthesized in this run.
C6_OnlyNonArrayIsFatal ==
    (last.op = "ingest")
        => /\ (last.pre_responsa.kind = "notlist")
                  => /\ last.result = "abort"
                     /\ responsa = last.pre_responsa
                     /\ qa_db = last.pre_qa
           /\ (last.pre_responsa.kind = "malformed")
                  => /\ last.result = "ok"
                     /\ responsa = RespFile("list", last.new_entries)
                     /\ qa_db.kind = "dict"

C6_Witness ==
    /\ last.op = "ingest"
    /\ last.pre_responsa.kind = "malformed"
    /\ last.new_entries # <<>>

\* the id under which the code files a stored question and a dump item
SameId(q, item) == Strip(StrId(q.id)) = QidOf(item)

\* C7: after an ingest run qa_db.json holds every question it held before,
\* except those for which a dump item has the same id, and for every ingested
\* dump item the item processed last among those with its id.
C7_QaUnion ==
    RanIngest
        => LET pre  == QuestionsOf(last.pre_qa)
               post == Range(QuestionsOf(qa_db))
               prs  == SelectSeq(IngestedPairs, LAMBDA pr : QidOf(pr[2]) # <<>>)
           IN  /\ \A q \in Range(pre) :
                      \/ q \in post
                      \/ \E i \in 1..Len(prs) : SameId(q, prs[i][2])
               /\ \A i \in 1..Len(prs) :
                      (\A j \in (i+1)..Len(prs) : QidOf(prs[j][2]) # QidOf(prs[i][2]))
                          => Backfill(prs[i][2]) \in post

\* a dump item without a usable id: the key is missing, null, empty or blank
LacksId(item) ==
    \/ item.id.t \in {"absent", "null"}
    \/ item.id.t = "str" /\ Strip(item.id.s) = <<>>

\* C8: an ingest run adds no question and no responsa entry for a dump item
\* that lacks a non-empty id.
C8_NoIdExcluded ==
    RanIngest
        => \A i \in 1..Len(IngestedPairs) :
               LET rel  == IngestedPairs[i][1]
                   item == IngestedPairs[i][2]
               IN  LacksId(item)
                       => /\ Backfill(item) \notin Range(QuestionsOf(qa_db))
                                                   \ Range(QuestionsOf(last.pre_qa))
                          /\ to_responsa_entry(item, rel) \notin Range(last.new_entries)

----------------------------------------------------------------------------
(* normalize_summary_from_content on texts built line by line              *)

MaxLines == 4

LineTitle   == <<"#"," ","T","i","t","l","e">>
LineFrage   == <<"#","#"," ","F","r","a","g","e">>
LineRule    == <<"W","h","a","t"," ","i","s"," ","t","h","e"," ","r","u","l","e","?">>
LineAnswer  == <<"A","n","t","w","o","r","t","e","n",":"," ","b","e","c","a","u","s","e",".">>
LineBlank   == <<" ", "\t">>
LineLong    == [i \in 1..120 |-> "x"]

Lines == {LineTitle, LineFrage, LineRule, LineAnswer, LineBlank, LineLong}

NumLines(c) ==
    IF c = <<>> THEN 0 ELSE 1 + Cardinality({i \in 1..Len(c) : c[i] = "\n"})

InitSummary ==
    /\ responsa = RespFile("absent", <<>>)
    /\ qa_db = QaFileOf("absent", <<>>)
    /\ dump = NoDump
    /\ tree = NoTree
    /\ last = NoRun
    /\ ingested = FALSE
    /\ procs = [p \in Procs |-> Idle]
    /\ writers = <<>>
    /\ content = <<>>
    /\ summary = <<>>
    /\ spc = "edit"
    /\ runs = 0
    /\ edits = 0

Files == <<responsa, qa_db, dump, tree, last, ingested, procs, writers, runs, edits>>

AppendLine(l) ==
    /\ spc = "edit"
    /\ NumLines(content) < MaxLines
    /\ content' = IF content = <<>> THEN l ELSE content \o <<"\n">> \o l
    /\ UNCHANGED <<summary, spc, Files>>

Summarize ==
    /\ spc = "edit"
    /\ summary' = normalize_summary_from_content(content)
    /\ spc' = "done"
    /\ UNCHANGED <<content, Files>>

NextSummary ==
    \/ \E l \in Lines : AppendLine(l)
    \/ Summarize

SpecSummary == InitSummary /\ [][NextSummary]_vars

\* "# Title\n## Frage\nWhat is the rule?\nAntworten: because."
Content9 ==
    LineTitle \o <<"\n">> \o LineFrage \o <<"\n">> \o LineRule \o <<"\n">> \o LineAnswer

\* C9 as stated: the summary of Content9 is "What is the rule? because."
C9_KeepsTextAfterLabel ==
    (spc = "done" /\ content = Content9)
        => summary = LineRule \o <<" ">> \o <<"b","e","c","a","u","s","e",".">>

\* C9 amended: the summary of Content9 is "What is the rule?": the heading
\* lines are removed and so is the whole line that starts with the section
\* label, the text after the label included.
C9_DropsLabelLine ==
    (spc = "done" /\ content = Content9) => summary = LineRule

C9_Witness == spc = "done" /\ content = Content9

----------------------------------------------------------------------------
(* Overlapping runs: each load and each save is one step                   *)

ConcDumps ==
    { NoDump,
      [NoDump EXCEPT !["miyodea/qa/a.json"] = DumpFile("dict", <<ItemOne>>),
                     !["miyodea/qa/b.json"] = DumpFile("list", <<ItemPadded, ItemNull>>)] }

ConcTrees == { NoTree, [isdir |-> TRUE, nodes |-> DocNodes] }

InitConc ==
    /\ responsa \in InitResponsa
    /\ qa_db \in InitQaDb
    /\ dump \in ConcDumps
    /\ tree \in ConcTrees
    /\ last = NoRun
    /\ ingested = FALSE
    /\ procs = [p \in Procs |-> Idle]
    /\ writers = <<>>
    /\ content = <<>>
    /\ summary = <<>>
    /\ spc = "off"
    /\ runs = 0
    /\ edits = 0

Rest == <<dump, tree, last, ingested, content, summary, spc, runs, edits>>

\* mutation: the save re-reads the file and appends only its own additions
SavedIndexMerged(local, onDisk) == EntriesOf(onDisk) \o local.new_entries

\* what a run writes to responsa.json: the list it holds in memory
SavedIndex(local, onDisk) == local.out

\* ingest: responsa = load_json(RESPONSA_PATH, []) and the isinstance test
ConcIngestLoad(p) ==
    /\ procs[p].pc = "idle"
    /\ procs' = [procs EXCEPT ![p] =
                    IF IsFatal(responsa)
                    THEN [@ EXCEPT !.pc = "aborted", !.kind = "ingest"]
                    ELSE [@ EXCEPT !.pc = "i_loaded", !.kind = "ingest",
                                   !.snapshot = LoadResponsa(responsa),
                                   !.seen = Len(writers)]]
    /\ UNCHANGED <<responsa, qa_db, writers, Rest>>

\* ingest: load qa_db.json, then the loop over the dump files
ConcIngestMerge(p) ==
    /\ procs[p].pc = "i_loaded"
    /\ LET out == IngestCompute(procs[p].snapshot, LoadQuestions(qa_db), dump)
       IN  procs' = [procs EXCEPT ![p] =
                        [@ EXCEPT !.pc = "i_merged",
                                  !.new_entries = out.new_entries,
                                  !.out = out.responsa,
                                  !.questions = out.combined_questions]]
    /\ UNCHANGED <<responsa, qa_db, writers, Rest>>

\* ingest: save_json(QA_DB_PATH, ...)
ConcIngestSaveQa(p) ==
    /\ procs[p].pc = "i_merged"
    /\ qa_db' = QaFileOf("dict", procs[p].questions)
    /\ procs' = [procs EXCEPT ![p].pc = "i_savedqa"]
    /\ UNCHANGED <<responsa, writers, Rest>>

\* ingest: save_json(RESPONSA_PATH, responsa)
ConcIngestSaveIndex(p) ==
    /\ procs[p].pc = "i_savedqa"
    /\ responsa' = RespFile("list", SavedIndex(procs[p], responsa))
    /\ writers' = Append(writers, p)
    /\ procs' = [procs EXCEPT ![p].pc = "done"]
    /\ UNCHANGED <<qa_db, Rest>>

\* scan: no responsa/ directory
ConcScanNoDir(p) ==
    /\ procs[p].pc = "idle"
    /\ ~tree.isdir
    /\ procs' = [procs EXCEPT ![p] = [@ EXCEPT !.pc = "done", !.kind = "scan"]]
    /\ UNCHANGED <<responsa, qa_db, writers, Rest>>

\* scan: load responsa.json and build existing_map and existing_numbers
ConcScanLoad(p) ==
    /\ procs[p].pc = "idle"
    /\ tree.isdir
    /\ procs' = [procs EXCEPT ![p] =
                    IF responsa.kind = "notlist"
                    THEN [@ EXCEPT !.pc = "aborted", !.kind = "scan"]
                    ELSE [@ EXCEPT !.pc = "s_loaded", !.kind = "scan",
                                   !.snapshot = ScanLoad(responsa),
                                   !.seen = Len(writers)]]
    /\ UNCHANGED <<responsa, qa_db, writers, Rest>>

\* scan: the walk over the tree, in rglob's order; nothing new ends the run
ConcScanWalk(p, order) ==
    /\ procs[p].pc = "s_loaded"
    /\ LET out == ScanCompute(procs[p].snapshot, order)
       IN  procs' = [procs EXCEPT ![p] =
                        IF order = <<>>
                        THEN [@ EXCEPT !.pc = "done"]
                        ELSE [@ EXCEPT !.pc = "s_walked",
                                       !.new_entries = out.new_entries,
                                       !.out = out.updated_data]]
    /\ UNCHANGED <<responsa, qa_db, writers, Rest>>

\* scan: json.dump(updated_data, f, ...)
ConcScanSave(p) ==
    /\ procs[p].pc = "s_walked"
    /\ responsa' = RespFile("list", SavedIndex(procs[p], responsa))
    /\ writers' = Append(writers, p)
    /\ procs' = [procs EXCEPT ![p].pc = "done"]
    /\ UNCHANGED <<qa_db, Rest>>

NextConc ==
    \E p \in Procs :
        \/ ConcIngestLoad(p)
        \/ ConcIngestMerge(p)
        \/ ConcIngestSaveQa(p)
        \/ ConcIngestSaveIndex(p)
        \/ ConcScanNoDir(p)
        \/ ConcScanLoad(p)
        \/ \E order \in Orders(NewFiles(procs[p].snapshot, tree)) : ConcScanWalk(p, order)
        \/ ConcScanSave(p)

SpecConc == InitConc /\ [][NextConc]_vars

\* both runs completed normally, both wrote responsa.json, and the one that
\* wrote last had loaded the file before the other wrote it
Overlapped ==
    /\ \A p \in Procs : procs[p].pc = "done"
    /\ Len(writers) = 2
    /\ procs[writers[2]].seen = 0

\* C10: when two runs overlap on responsa.json the last writer wins and the
\* two deltas are not merged: the final file is the list the last writer
\* loaded plus its own additions, so an entry added by the first writer is in
\* it only if the last writer loaded or produced that same entry itself.
C10_LastWriterWins ==
    Overlapped
        => LET w1 == procs[writers[1]]
               w2 == procs[writers[2]]
               final == Range(EntriesOf(responsa))
           IN  /\ final = Range(w2.snapshot) \cup Range(w2.new_entries)
               /\ \A e \in Range(w1.new_entries) :
                      e \in final => e \in Range(w2.snapshot) \cup Range(w2.new_entries)

\* an interleaving that loses an update: both runs completed and an entry the
\* first writer added is not in the final responsa.json
C10_Witness ==
    /\ Overlapped
    /\ procs[writers[1]].kind # procs[writers[2]].kind
    /\ \E e \in Range(procs[writers[1]].new_entries) :
           e \notin Range(EntriesOf(responsa))

====
